---- MODULE Spec2Model ----
(***************************************************************************)
(* Model of the event-stream engine of packages/proxy-server               *)
(* (BrowserEventStream in browser-event-stream.ts).                        *)
(*                                                                         *)
(* The engine runs on a single-threaded cooperative event loop: the code   *)
(* between two `await`s is one atomic step.  Every connect() and           *)
(* disconnect() call is a task whose position (pc) is the `await` it is    *)
(* suspended on; one action of the model is one such synchronous segment.  *)
(***************************************************************************)
EXTENDS Integers, Sequences, FiniteSets, TLC

\* ------------------------------------------------------------------ bounds
MaxCalls == 3     \* connect() and disconnect() calls issued by the callers
MaxCmdCalls == 2  \* the same, in the runs that also send commands
MaxSends == 1     \* sendCdpCommandToBrowser() calls
MaxTransports == 3   \* subscriber transports (WebSocket objects)
MaxAdds == 3      \* addClient() calls
MaxEvents == 1    \* broadcastToClients() calls
MaxLoads == 2     \* runs of the page 'load' hook
MaxElements == 5  \* elements a document gets
MaxInjections == 3   \* runs of the tracker script in one document
MaxPageLoads == 1 \* 'load' events in the runs that follow the pages' loads
MaxOps == 3       \* calls and events in the runs that route session events

\* ------------------------------------------------------- program constants
\* options.enableDomains, the configured enabled-domain list
enableDomains == <<"Page", "Network">>

\* the four handles of BrowserConnectionResponse
Kinds == {"browser", "context", "page", "cdpSession"}

\* result[c] of a connect call whose provider has not answered yet
NoResult == {"none"}

\* a handle is the number of the connect() call whose acquisition returned
\* it; null is the absent handle
null == 0

ConnectCalls == {<<"connect", i>> : i \in 1..MaxCalls}
DisconnectCalls == {<<"disconnect", i>> : i \in 1..MaxCalls}
Tasks == ConnectCalls \cup DisconnectCalls
SendCalls == {<<"send", i>> : i \in 1..MaxSends}
LoadCalls == {<<"load", i>> : i \in 1..MaxLoads}

\* the commands a caller sends, as <<domain, name>>: one of a forwardable
\* domain, one of a domain outside the forwardable set
Methods == {<<"Page", "navigate">>, <<"Target", "getTargets">>}

\* the subscriber transports, numbered in the order of their first
\* addClient(), and the ids uuidv4() hands out, in order
Transports == 1..MaxTransports
Ids == 1..MaxAdds

\* what a SessionProvider answers: every handle, none (success: false), or
\* all but one
Responses == {Kinds, {}} \cup {Kinds \ {k} : k \in Kinds}

\* handled after a step that normalised no fault
NoFault == <<>>

VARIABLES
    connected,        \* this.connected
    connecting,       \* this.connecting
    browser,          \* this.browser      (null or a session number)
    context,          \* this.context
    page,             \* this.page
    cdpSession,       \* this.cdpSession
    pc,               \* per task: the await it is suspended on, or its outcome
    di,               \* per connect call: index of the domain being enabled
    result,           \* per connect call: the handles the provider returned
    cmds,             \* per task: the protocol commands it issued, in order
    handled,          \* the fault the last step gave to handleError: <<task, site>>
    released,         \* per handle <<kind, session>>: number of releases invoked
    loadHooks,        \* per page handle: number of 'load' hooks registered
    nativeListeners,  \* per cdp session: registrations of the 8 fixed listeners
    decoders,         \* per cdp session: Runtime.consoleAPICalled decoders
    registered,       \* per cdp session: its listeners in the order of registration
    notifications     \* 'connect' / 'disconnect' notifications emitted, in order

\* sendCdpCommandToBrowser
VARIABLES
    sendPc,           \* per send call: idle, send (awaiting the session), done
    sendMethod,       \* per send call: the method it was called with
    sendTo,           \* per send call: the session whose send() got the command
    sendOutcome       \* per send call: how the promise settled, and with what

\* subscriber registry and broadcast
VARIABLES
    clients,          \* this.clients, a Set: its members in insertion order
    clientRegistry,   \* this.clientRegistry: id -> registry entry
    closeHooks,       \* per transport: 'close' listeners added by addClient
    readyState,       \* per transport: its readyState
    clientNotes,      \* 'client-connected' / 'client-disconnected' emitted
    delivered,        \* per transport: the frames its send() accepted
    raised,           \* the transport whose send() raised in the last step
    thrown,           \* the last step was a broadcast that raised to its caller
    now,              \* the clock: addClient() calls so far
    nextId,           \* ids generated so far
    events            \* broadcastToClients() calls so far

\* the session's events and the page's 'load' events
VARIABLES
    published,        \* the 'browser-event' notifications emitted, in order
    emitted,          \* events the protocol sessions have emitted so far
    loads             \* 'load' events the pages have fired so far

\* one document of a page and the script context the tracker runs in
VARIABLES
    inDocument,       \* the elements in the document
    trackers,         \* DomInteractionTracker objects the injections created
    trackedElements,  \* per tracker: the keys of its trackedElements Map
    attached          \* per element and type: listeners addEventListener added

lifecycle == <<connected, connecting>>
handles == <<browser, context, page, cdpSession>>
listeners == <<loadHooks, nativeListeners, decoders, registered>>
commands == <<sendPc, sendMethod, sendTo, sendOutcome>>
registry == <<clients, clientRegistry, closeHooks, readyState, clientNotes,
              delivered, raised, thrown, now, nextId, events>>
engine == <<connected, connecting, browser, context, page, cdpSession, pc, di,
            result, cmds, released, loadHooks, nativeListeners, decoders, registered,
            notifications>>
vars == <<connected, connecting, browser, context, page, cdpSession, pc, di,
          result, cmds, handled, released, loadHooks, nativeListeners,
          decoders, registered, notifications, commands, registry, published, emitted,
          loads, inDocument, trackers, trackedElements, attached>>
channel == <<published, emitted, loads>>
document == <<inDocument, trackers, trackedElements, attached>>

\* the elements a document may get, and the trackers of its script context
Elements == 1..MaxElements
Trackers == 1..MaxInjections

\* lines 534-544
interactionTypes ==
    {"click", "focus", "blur", "input", "change", "mousedown", "mouseup",
     "touchstart", "touchend"}

\* sendOutcome of a call that has not settled
Pending == <<"pending", "">>

\* the place of an id that clientRegistry does not hold
Absent == [client |-> null, createdAt |-> 0, lastActive |-> 0]

Sessions == 1..MaxCalls

\* the connection state an observer derives from the two flags
State ==
    IF connected THEN "Connected"
    ELSE IF connecting THEN "Connecting"
    ELSE "Disconnected"

\* isConnected()
isConnected == connected

Init ==
    /\ connected = FALSE
    /\ connecting = FALSE
    /\ browser = null
    /\ context = null
    /\ page = null
    /\ cdpSession = null
    /\ pc = [t \in Tasks \cup LoadCalls |-> "idle"]
    /\ di = [c \in ConnectCalls |-> 0]
    /\ result = [c \in ConnectCalls |-> NoResult]
    /\ cmds = [t \in ConnectCalls \cup LoadCalls |-> <<>>]
    /\ handled = NoFault
    /\ released = [h \in Kinds \X Sessions |-> 0]
    /\ loadHooks = [s \in Sessions |-> 0]
    /\ nativeListeners = [s \in Sessions |-> 0]
    /\ decoders = [s \in Sessions |-> 0]
    /\ registered = [s \in Sessions |-> <<>>]
    /\ notifications = <<>>
    /\ sendPc = [s \in SendCalls |-> "idle"]
    /\ sendMethod = [s \in SendCalls |-> <<"", "">>]
    /\ sendTo = [s \in SendCalls |-> null]
    /\ sendOutcome = [s \in SendCalls |-> Pending]
    /\ clients = <<>>
    /\ clientRegistry = [id \in Ids |-> Absent]
    /\ closeHooks = [w \in Transports |-> 0]
    /\ readyState = [w \in Transports |-> "OPEN"]
    /\ clientNotes = <<>>
    /\ delivered = [w \in Transports |-> <<>>]
    /\ raised = null
    /\ thrown = FALSE
    /\ now = 0
    /\ nextId = 0
    /\ events = 0
    /\ published = <<>>
    /\ emitted = 0
    /\ inDocument = {}
    /\ trackers = 0
    /\ trackedElements = [k \in Trackers |-> {}]
    /\ attached = [e \in Elements |-> [type \in interactionTypes |-> 0]]
    /\ loads = 0

\* calls are numbered in the order in which they are issued
NextCall(t) ==
    /\ pc[t] = "idle"
    /\ Cardinality({u \in Tasks : pc[u] # "idle"}) < MaxCalls
    /\ \A u \in Tasks : (u[1] = t[1] /\ u[2] < t[2]) => pc[u] # "idle"

\* ------------------------------------------------------------- small helpers
Note(kind, t) == <<kind, t>>

Emit(kind, t) == notifications' = Append(notifications, Note(kind, t))

\* handleError(error) runs at `site` of task t
HandleError(t, site) == handled' = <<t, site>>

\* the step raises no fault
NoError == handled' = NoFault

\* ------------------------------------------------------------------ connect

\* the guard of connect() without its test of the connecting flag
ConnectEarlyReturn_ConnectedOnly == connected

\* line 149: if (this.connected || this.connecting) return;
ConnectEarlyReturn == connected \/ connecting

\* lines 157-160: every one of the four handles must be present
HandlesComplete(r) ==
    /\ "browser" \in r
    /\ "context" \in r
    /\ "page" \in r
    /\ "cdpSession" \in r

\* setUpEventListeners giving up the remaining domains at the first enable
\* command that fails
SetUpFrom_StopAtFault(c, i, cdp, pg, faulted) ==
    IF i <= Len(enableDomains) /\ cdp # null /\ ~faulted
    THEN /\ pc' = [pc EXCEPT ![c] = "enable"]
         /\ di' = [di EXCEPT ![c] = i]
         /\ cmds' = [cmds EXCEPT ![c] = Append(@, enableDomains[i] \o ".enable")]
         /\ NoError
         /\ UNCHANGED <<loadHooks, nativeListeners, registered>>
    ELSE /\ di' = [di EXCEPT ![c] = Len(enableDomains) + 1]
         /\ IF faulted \/ i <= Len(enableDomains)
            THEN HandleError(c, "enable")
            ELSE NoError
         /\ loadHooks' = IF pg # null
                         THEN [loadHooks EXCEPT ![pg] = @ + 1]
                         ELSE loadHooks
         /\ IF cdp # null
            THEN /\ nativeListeners' = [nativeListeners EXCEPT ![cdp] = @ + 1]
                 /\ registered' = [registered EXCEPT ![cdp] = Append(@, "fixed")]
                 /\ pc' = [pc EXCEPT ![c] = "setupResolved"]
            ELSE /\ UNCHANGED <<nativeListeners, registered>>
                 /\ pc' = [pc EXCEPT ![c] = "setupRejected"]
         /\ UNCHANGED cmds

\* setUpEventListeners from domain index i on, in one synchronous segment;
\* the handles it reads are cdp and pg.
\*  - a domain's enable command is sent and awaited (line 334); on a null
\*    session that expression raises inside the per-domain try (lines 335-338)
\*    and the loop goes on without suspending;
\*  - after the loop the page 'load' hook is registered (lines 342-347) and
\*    setupStandardCdpEventListeners either raises (line 352) or registers
\*    the eight fixed listeners (lines 372-379).
\* faulted: a fault was normalised in this segment before the loop went on.
SetUpFrom(c, i, cdp, pg, faulted) ==
    IF i <= Len(enableDomains) /\ cdp # null
    THEN /\ pc' = [pc EXCEPT ![c] = "enable"]
         /\ di' = [di EXCEPT ![c] = i]
         /\ cmds' = [cmds EXCEPT ![c] = Append(@, enableDomains[i] \o ".enable")]
         /\ IF faulted THEN HandleError(c, "enable") ELSE NoError
         /\ UNCHANGED <<loadHooks, nativeListeners, registered>>
    ELSE /\ di' = [di EXCEPT ![c] = Len(enableDomains) + 1]
         /\ IF faulted \/ i <= Len(enableDomains)
            THEN HandleError(c, "enable")
            ELSE NoError
         /\ loadHooks' = IF pg # null
                         THEN [loadHooks EXCEPT ![pg] = @ + 1]
                         ELSE loadHooks
         /\ IF cdp # null
            THEN /\ nativeListeners' = [nativeListeners EXCEPT ![cdp] = @ + 1]
                 /\ registered' = [registered EXCEPT ![cdp] = Append(@, "fixed")]
                 /\ pc' = [pc EXCEPT ![c] = "setupResolved"]
            ELSE /\ UNCHANGED <<nativeListeners, registered>>
                 /\ pc' = [pc EXCEPT ![c] = "setupRejected"]
         /\ UNCHANGED cmds

\* connect() is called (lines 148-153): up to the await of the provider
ConnectCall(c) ==
    /\ NextCall(c)
    /\ IF ConnectEarlyReturn
       THEN /\ pc' = [pc EXCEPT ![c] = "noop"]
            /\ UNCHANGED connecting
       ELSE /\ connecting' = TRUE
            /\ pc' = [pc EXCEPT ![c] = "acquire"]
    /\ NoError
    /\ UNCHANGED <<connected, handles, di, result, cmds, released, listeners,
                   notifications>>
    /\ UNCHANGED <<commands, registry, channel, document>>

\* a catch of connect() that leaves the connecting flag set
ConnectAbort_KeepsConnecting(c) ==
    /\ HandleError(c, "connect")
    /\ pc' = [pc EXCEPT ![c] = "resolved"]
    /\ UNCHANGED <<connected, connecting, handles, di, cmds, listeners, notifications>>

\* the catch of connect() (lines 188-192): the call completes normally
ConnectAbort(c) ==
    /\ connecting' = FALSE
    /\ HandleError(c, "connect")
    /\ pc' = [pc EXCEPT ![c] = "resolved"]
    /\ UNCHANGED <<connected, handles, di, cmds, listeners, notifications>>

\* the provider's answer r arrives (lines 153-169)
ProviderReturn(c, r) ==
    /\ pc[c] = "acquire"
    /\ result' = [result EXCEPT ![c] = r]
    /\ UNCHANGED released
    /\ IF ~HandlesComplete(r)
       THEN ConnectAbort(c)
       ELSE /\ browser' = c[2]
            /\ context' = c[2]
            /\ page' = c[2]
            /\ cdpSession' = c[2]
            /\ SetUpFrom(c, 1, c[2], c[2], FALSE)
            /\ UNCHANGED <<connected, connecting, decoders, notifications>>
    /\ UNCHANGED <<commands, registry, channel, document>>

\* an enable command completes, with or without a fault (lines 334-338)
EnableReturn(c, ok) ==
    /\ pc[c] = "enable"
    /\ SetUpFrom(c, di[c] + 1, cdpSession, page, ~ok)
    /\ UNCHANGED <<connected, connecting, handles, result, released, decoders,
                   notifications>>
    /\ UNCHANGED <<commands, registry, channel, document>>

\* ------------------------------------------- injectDomInteractionTracker
\* an injection fault that ends the connect() call instead of being absorbed
InjectFault_Fatal(t) ==
    /\ HandleError(t, "inject")
    /\ pc' = [pc EXCEPT ![t] = "resolved"]
    /\ UNCHANGED <<cmds, decoders, registered>>

\* the catch of injectDomInteractionTracker (lines 809-812): the fault is
\* normalised and the function returns normally
InjectFault(t) ==
    /\ HandleError(t, "inject")
    /\ pc' = [pc EXCEPT ![t] = "injectReturned"]
    /\ UNCHANGED <<cmds, decoders, registered>>

\* task t sends `method` and suspends at `at`
InjectSend(t, method, at) ==
    /\ cmds' = [cmds EXCEPT ![t] = Append(@, method)]
    /\ pc' = [pc EXCEPT ![t] = at]
    /\ NoError
    /\ UNCHANGED <<decoders, registered>>

\* connect() resumes after setUpEventListeners (lines 169-176): a rejection
\* is normalised by the inner catch; then the injection is called, which
\* returns at once without a session or a page (lines 381-395)
SetupReturn(c) ==
    /\ pc[c] \in {"setupResolved", "setupRejected"}
    /\ IF pc[c] = "setupRejected"
       THEN HandleError(c, "connect.setup")
       ELSE NoError
    /\ IF cdpSession = null \/ page = null
       THEN /\ pc' = [pc EXCEPT ![c] = "injectReturned"]
            /\ UNCHANGED cmds
       ELSE /\ cmds' = [cmds EXCEPT ![c] = Append(@, "Runtime.enable")]
            /\ pc' = [pc EXCEPT ![c] = "runtimeEnable"]
    /\ UNCHANGED <<connected, connecting, handles, di, result, released,
                   listeners, notifications>>
    /\ UNCHANGED <<commands, registry, channel, document>>

\* Runtime.enable completes (lines 395-396)
RuntimeEnableReturn(t, ok) ==
    /\ pc[t] = "runtimeEnable"
    /\ IF ok /\ cdpSession # null
       THEN InjectSend(t, "DOM.enable", "domEnable")
       ELSE InjectFault(t)
    /\ UNCHANGED <<connected, connecting, handles, di, result, released,
                   loadHooks, nativeListeners, notifications>>
    /\ UNCHANGED <<commands, registry, channel, document>>

\* DOM.enable completes (lines 396-400)
DomEnableReturn(t, ok) ==
    /\ pc[t] = "domEnable"
    /\ IF ok /\ page # null
       THEN InjectSend(t, "page.evaluate", "evaluate")
       ELSE InjectFault(t)
    /\ UNCHANGED <<connected, connecting, handles, di, result, released,
                   loadHooks, nativeListeners, notifications>>
    /\ UNCHANGED <<commands, registry, channel, document>>

\* page.evaluate completes; the console decoder is registered (lines 764-808)
EvaluateReturn(t, ok) ==
    /\ pc[t] = "evaluate"
    /\ IF ok /\ cdpSession # null
       THEN /\ decoders' = [decoders EXCEPT ![cdpSession] = @ + 1]
            /\ registered' = [registered EXCEPT ![cdpSession] = Append(@, "decoder")]
            /\ pc' = [pc EXCEPT ![t] = "injectReturned"]
            /\ NoError
            /\ UNCHANGED cmds
       ELSE InjectFault(t)
    /\ UNCHANGED <<connected, connecting, handles, di, result, released,
                   loadHooks, nativeListeners, notifications>>
    /\ UNCHANGED <<commands, registry, channel, document>>

\* connect() resumes after the injection (lines 176-187)
ConnectFinish(c) ==
    /\ pc[c] = "injectReturned"
    /\ connected' = TRUE
    /\ connecting' = FALSE
    /\ Emit("connect", c)
    /\ pc' = [pc EXCEPT ![c] = "resolved"]
    /\ NoError
    /\ UNCHANGED <<handles, di, result, cmds, released, listeners>>
    /\ UNCHANGED <<commands, registry, channel, document>>

\* --------------------------------------------------------------- disconnect

\* disconnect() without its early return
DisconnectEarlyReturn_Missing == FALSE

\* line 195: if (!this.connected && !this.connecting) return;
DisconnectEarlyReturn == ~connected /\ ~connecting

\* disconnect() calls the release of handle h of the given kind and suspends
ReleaseCall(d, kind, h) ==
    /\ released' = [released EXCEPT ![<<kind, h>>] = @ + 1]
    /\ pc' = [pc EXCEPT ![d] = kind]
    /\ UNCHANGED <<connected, connecting, notifications>>

\* lines 237-244
DisconnectFinish(d) ==
    /\ connected' = FALSE
    /\ connecting' = FALSE
    /\ Emit("disconnect", d)
    /\ pc' = [pc EXCEPT ![d] = "resolved"]
    /\ UNCHANGED released

\* lines 227-235, 217-225, 207-215, 197-205: the guarded releases, in order
FromBrowser(d) ==
    IF browser # null THEN ReleaseCall(d, "browser", browser) ELSE DisconnectFinish(d)

FromContext(d) ==
    IF context # null THEN ReleaseCall(d, "context", context) ELSE FromBrowser(d)

FromPage(d) ==
    IF page # null THEN ReleaseCall(d, "page", page) ELSE FromContext(d)

FromCdpSession(d) ==
    IF cdpSession # null THEN ReleaseCall(d, "cdpSession", cdpSession) ELSE FromPage(d)

\* disconnect() is called (lines 194-199)
DisconnectCall(d) ==
    /\ NextCall(d)
    /\ IF DisconnectEarlyReturn
       THEN /\ pc' = [pc EXCEPT ![d] = "noop"]
            /\ UNCHANGED <<connected, connecting, released, notifications>>
       ELSE FromCdpSession(d)
    /\ NoError
    /\ UNCHANGED <<handles, di, result, cmds, listeners>>
    /\ UNCHANGED <<commands, registry, channel, document>>

\* a release that completed with a fault: the catch normalises it
ReleaseHandled(d, ok) ==
    IF ok THEN NoError ELSE HandleError(d, pc[d])

\* cdpSession.detach() completes (lines 199-207)
DetachReturn(d, ok) ==
    /\ pc[d] = "cdpSession"
    /\ ReleaseHandled(d, ok)
    /\ cdpSession' = null
    /\ FromPage(d)
    /\ UNCHANGED <<browser, context, page, di, result, cmds, listeners>>
    /\ UNCHANGED <<commands, registry, channel, document>>

\* page.close() completes (lines 209-217)
PageCloseReturn(d, ok) ==
    /\ pc[d] = "page"
    /\ ReleaseHandled(d, ok)
    /\ page' = null
    /\ FromContext(d)
    /\ UNCHANGED <<browser, context, cdpSession, di, result, cmds, listeners>>
    /\ UNCHANGED <<commands, registry, channel, document>>

\* context.close() completes (lines 219-227)
ContextCloseReturn(d, ok) ==
    /\ pc[d] = "context"
    /\ ReleaseHandled(d, ok)
    /\ context' = null
    /\ FromBrowser(d)
    /\ UNCHANGED <<browser, page, cdpSession, di, result, cmds, listeners>>
    /\ UNCHANGED <<commands, registry, channel, document>>

\* browser.close() completes (lines 229-244)
BrowserCloseReturn(d, ok) ==
    /\ pc[d] = "browser"
    /\ ReleaseHandled(d, ok)
    /\ browser' = null
    /\ DisconnectFinish(d)
    /\ UNCHANGED <<context, page, cdpSession, di, result, cmds, listeners>>
    /\ UNCHANGED <<commands, registry, channel, document>>

\* --------------------------------------------------- sendCdpCommandToBrowser

\* server.ts, isCDPDomain: the domains whose events the engine routes
isCDPDomain(domain) == domain \in {"Page", "Network", "DOM", "Runtime", "Console"}

\* line 318: if (!this.cdpSession) throw new ServerError(...)
NotInitialized == cdpSession = null

\* the test of line 319 left out
NotConnected_Never == FALSE

\* line 319: if (!this.connected) throw new ServerError(...)
NotConnected == ~connected

\* sendCdpCommandToBrowser(method) is called (lines 317-322): it throws, or
\* hands the method to the session and awaits its answer
SendCdpCommandToBrowser(s, method) ==
    /\ sendPc[s] = "idle"
    /\ \A u \in SendCalls : u[2] < s[2] => sendPc[u] # "idle"
    /\ sendMethod' = [sendMethod EXCEPT ![s] = method]
    /\ IF NotInitialized \/ NotConnected
       THEN /\ sendPc' = [sendPc EXCEPT ![s] = "done"]
            /\ sendOutcome' = [sendOutcome EXCEPT ![s] = <<"rejected", "ServerError">>]
            /\ UNCHANGED sendTo
       ELSE /\ sendPc' = [sendPc EXCEPT ![s] = "send"]
            /\ sendTo' = [sendTo EXCEPT ![s] = cdpSession]
            /\ UNCHANGED sendOutcome
    /\ NoError
    /\ UNCHANGED <<engine, registry, channel, document>>

\* the session answers (lines 322-325): its result is returned; its
\* rejection is given to handleError, whose return value is dropped, and the
\* function ends without a return statement
CdpSendReturn(s, ok) ==
    /\ sendPc[s] = "send"
    /\ sendPc' = [sendPc EXCEPT ![s] = "done"]
    /\ IF ok
       THEN /\ sendOutcome' = [sendOutcome EXCEPT ![s] = <<"resolved", "result">>]
            /\ NoError
       ELSE /\ sendOutcome' = [sendOutcome EXCEPT ![s] = <<"resolved", "undefined">>]
            /\ HandleError(s, "send")
    /\ UNCHANGED <<sendMethod, sendTo, engine, registry, channel, document>>

\* ------------------------------------------------ subscribers and broadcast

\* the members of a Set held as its insertion order
Members(set) == {set[i] : i \in 1..Len(set)}

\* Set.add: a member keeps its place, a new one goes last
SetAdd(set, w) == IF w \in Members(set) THEN set ELSE Append(set, w)

\* Set.delete
SetDelete(set, w) == SelectSeq(set, LAMBDA x : x # w)

\* lines 257, 296: the registry entries whose client is transport w
ExistingIds(reg, w) == {id \in Ids : reg[id].client = w}

\* the first such entry in the Map's order, which is the order of insertion
FirstId(ids) == CHOOSE id \in ids : \A other \in ids : id <= other

\* getClientCount()
getClientCount == Len(clients)

\* generateClientId without its search of the registry
generateClientId_Fresh(w) == nextId + 1

\* generateClientId(w) (lines 255-274): the id it returns, that of w's entry
\* or else a new one
generateClientId(w) ==
    IF ExistingIds(clientRegistry, w) # {}
    THEN FirstId(ExistingIds(clientRegistry, w))
    ELSE nextId + 1

\* getClientById(clientId) (lines 307-309): the entry, Absent standing for
\* undefined
getClientById(clientId) == clientRegistry[clientId]

\* addClient(w) (lines 275-291); generateClientId refreshes lastActive of
\* the entry it found (an id handed out before) or stores a new entry
AddClient(w) ==
    /\ now < MaxAdds
    /\ \A u \in Transports : u < w => closeHooks[u] > 0
    /\ now' = now + 1
    /\ IF generateClientId(w) <= nextId
       THEN /\ clientRegistry' =
                   [clientRegistry EXCEPT ![generateClientId(w)].lastActive = now']
            /\ UNCHANGED nextId
       ELSE /\ clientRegistry' =
                   [clientRegistry EXCEPT ![generateClientId(w)] =
                        [client |-> w, createdAt |-> now', lastActive |-> now']]
            /\ nextId' = generateClientId(w)
    /\ clients' = SetAdd(clients, w)
    /\ closeHooks' = [closeHooks EXCEPT ![w] = @ + 1]
    /\ clientNotes' = Append(clientNotes, <<"client-connected", generateClientId(w)>>)
    /\ raised' = null
    /\ thrown' = FALSE
    /\ UNCHANGED <<readyState, delivered, events>>
    /\ UNCHANGED <<engine, handled, commands, channel, document>>

\* removeClient that emits its notification and keeps the registry entry
removeClient_KeepsEntry(R, w) ==
    IF ExistingIds(R.registry, w) = {}
    THEN [R EXCEPT !.clients = SetDelete(@, w)]
    ELSE [R EXCEPT !.clients = SetDelete(@, w),
                   !.notes = Append(@, <<"client-disconnected",
                                         FirstId(ExistingIds(R.registry, w))>>)]

\* removeClient that deletes the registry entry and keeps the Set member
removeClient_KeepsMember(R, w) ==
    IF ExistingIds(R.registry, w) = {}
    THEN R
    ELSE [R EXCEPT !.registry = [@ EXCEPT ![FirstId(ExistingIds(R.registry, w))] = Absent],
                   !.notes = Append(@, <<"client-disconnected",
                                         FirstId(ExistingIds(R.registry, w))>>)]

\* removeClient(w) (lines 292-306) applied to R = [clients, registry, notes]
removeClient(R, w) ==
    IF ExistingIds(R.registry, w) = {}
    THEN [R EXCEPT !.clients = SetDelete(@, w)]
    ELSE [R EXCEPT !.clients = SetDelete(@, w),
                   !.registry = [@ EXCEPT ![FirstId(ExistingIds(R.registry, w))] = Absent],
                   !.notes = Append(@, <<"client-disconnected",
                                         FirstId(ExistingIds(R.registry, w))>>)]

\* the 'close' event of w runs its n listeners, each one removeClient(w)
RECURSIVE RunCloseHooks(_, _, _)
RunCloseHooks(R, w, n) ==
    IF n = 0 THEN R ELSE RunCloseHooks(removeClient(R, w), w, n - 1)

\* the registry as the three things removeClient works on
Registry == [clients |-> clients, registry |-> clientRegistry, notes |-> clientNotes]

\* a transport leaves the OPEN state; its 'close' event is still to come
Closing(w) ==
    /\ readyState[w] = "OPEN"
    /\ readyState' = [readyState EXCEPT ![w] = "CLOSING"]
    /\ raised' = null
    /\ thrown' = FALSE
    /\ UNCHANGED <<clients, clientRegistry, closeHooks, clientNotes, delivered,
                   now, nextId, events>>
    /\ UNCHANGED <<engine, handled, commands, channel, document>>

\* the transport is closed and dispatches 'close' (lines 280-282)
CloseEvent(w) ==
    /\ readyState[w] # "CLOSED"
    /\ readyState' = [readyState EXCEPT ![w] = "CLOSED"]
    /\ clients' = RunCloseHooks(Registry, w, closeHooks[w]).clients
    /\ clientRegistry' = RunCloseHooks(Registry, w, closeHooks[w]).registry
    /\ clientNotes' = RunCloseHooks(Registry, w, closeHooks[w]).notes
    /\ raised' = null
    /\ thrown' = FALSE
    /\ UNCHANGED <<closeHooks, delivered, now, nextId, events>>
    /\ UNCHANGED <<engine, handled, commands, channel, document>>

\* line 311: JSON.stringify({ event })
Message(event) == [event |-> event]

\* the loop of broadcastToClients (lines 312-315) from the i-th member of
\* the Set as it was on entry; f is the transport whose send() raises.  B
\* holds the registry, the frames delivered and whether the loop was left
\* by the fault.
RECURSIVE BroadcastFrom(_, _, _, _, _)
BroadcastFrom(set, i, message, f, B) ==
    IF i > Len(set) THEN B
    ELSE IF readyState[set[i]] = "OPEN"
    THEN IF set[i] = f
         THEN [B EXCEPT !.thrown = TRUE]
         ELSE BroadcastFrom(set, i + 1, message, f,
                            [B EXCEPT !.delivered[set[i]] = Append(@, message)])
    ELSE BroadcastFrom(set, i + 1, message, f,
                       [B EXCEPT !.R = removeClient(@, set[i])])

\* broadcastToClients(event) (lines 310-316); f is null when no send raises
BroadcastToClients(f) ==
    /\ events < MaxEvents
    /\ f # null => (f \in Members(clients) /\ readyState[f] = "OPEN")
    /\ events' = events + 1
    /\ LET B == BroadcastFrom(clients, 1, Message(events + 1), f,
                              [R |-> Registry, delivered |-> delivered,
                               thrown |-> FALSE])
       IN /\ clients' = B.R.clients
          /\ clientRegistry' = B.R.registry
          /\ clientNotes' = B.R.notes
          /\ delivered' = B.delivered
          /\ thrown' = B.thrown
    /\ raised' = f
    /\ UNCHANGED <<closeHooks, readyState, now, nextId>>
    /\ UNCHANGED <<engine, handled, commands, channel, document>>

\* ------------------------------------------------------- session events

\* the letters of the interaction types, lower case -> upper case
Upper == [ch \in {"a", "b"} |-> IF ch = "a" THEN "A" ELSE "B"]

\* String.prototype.toUpperCase and toLowerCase, on a string held as the
\* sequence of its characters
toUpperCase(str) ==
    [i \in 1..Len(str) |-> IF str[i] \in DOMAIN Upper THEN Upper[str[i]] ELSE str[i]]

toLowerCase(str) ==
    [i \in 1..Len(str) |->
        IF \E ch \in DOMAIN Upper : Upper[ch] = str[i]
        THEN CHOOSE ch \in DOMAIN Upper : Upper[ch] = str[i]
        ELSE str[i]]

\* JSON.stringify(value): the text of a value
stringify(value) == <<"json", value>>

\* a text cut short, which JSON.parse refuses
truncated(value) == <<"json-cut", value>>

\* JSON.parse(text) returns a value or throws a SyntaxError
parses(text) == text[1] = "json"
parse(text) == text[2]

\* reportInteraction (lines 618-622): the two arguments of console.info;
\* a message is held as its parts between colons
reportInteraction(type) ==
    <<<<"BROWSERBASE_EVENT_PROXY", "DOM_INTERACTION", toUpperCase(type)>>,
      stringify([type |-> type, element |-> "details"])>>

\* line 778: message.startsWith('BROWSERBASE_EVENT_PROXY:DOM_INTERACTION:')
startsWithMarker(message) ==
    /\ Len(message) >= 3
    /\ message[1] = "BROWSERBASE_EVENT_PROXY"
    /\ message[2] = "DOM_INTERACTION"

\* the console message of a reported interaction, and the same message with
\* its payload cut short
WellFormed == [type |-> "info", args |-> reportInteraction(<<"a", "b">>)]
Malformed ==
    [type |-> "info", args |-> <<WellFormed.args[1], truncated([type |-> <<"a", "b">>])>>]

\* the params of the Runtime.consoleAPICalled events the page can cause:
\* a reported interaction, one whose payload arrives cut short, one without
\* a payload, one sent by console.log and the tracker's INITIALIZED message,
\* which has no marker
ConsoleParams ==
    { WellFormed, Malformed,
      [type |-> "info", args |-> <<reportInteraction(<<"a", "b">>)[1]>>],
      [type |-> "log", args |-> reportInteraction(<<"a", "b">>)],
      [type |-> "info", args |-> <<<<"BROWSERBASE_EVENT_PROXY", "INITIALIZED">>>>] }

\* the events a protocol session emits, as <<method, params>>; a method is
\* held as its parts between dots
SessionEvents ==
    {<<<<"Page", "loadEventFired">>, [timestamp |-> 1]>>,
     <<<<"Target", "targetCreated">>, [targetId |-> 1]>>}
    \cup {<<<<"Runtime", "consoleAPICalled">>, params>> : params \in ConsoleParams}

\* lines 372-379: the methods createEventHandler is registered for
FixedMethods ==
    {<<"Page", "loadEventFired">>, <<"Page", "frameNavigated">>,
     <<"Network", "requestWillBeSent">>, <<"Network", "responseReceived">>,
     <<"Console", "messageAdded">>, <<"Runtime", "consoleAPICalled">>,
     <<"Runtime", "exceptionThrown">>, <<"DOM", "documentUpdated">>}

\* an event that carries its type where its domain belongs
BrowserEvent_TypeAsDomain(domain, method, params) ==
    [type |-> "browser", domain |-> "browser", method |-> method,
     params |-> params, timestamp |-> emitted + 1]

\* lines 358-365, 786-793: the BrowserEvent; its timestamp is the clock,
\* which counts the session's events
BrowserEvent(domain, method, params) ==
    [type |-> "browser", domain |-> domain, method |-> method,
     params |-> params, timestamp |-> emitted + 1]

\* what the listeners of one session event work on
Dispatching ==
    [R |-> Registry, delivered |-> delivered, published |-> published,
     events |-> events, raised |-> FALSE, thrown |-> FALSE, fault |-> FALSE]

\* this.broadcastToClients(event) called by a listener; f is the
\* transport whose send() raises
Broadcast(X, event, f) ==
    LET B == BroadcastFrom(X.R.clients, 1, Message(event), f,
                           [R |-> X.R, delivered |-> X.delivered, thrown |-> FALSE])
    IN [X EXCEPT !.R = B.R, !.delivered = B.delivered, !.events = @ + 1,
                 !.raised = B.thrown]

\* a listener whose publication puts the event in front of the earlier ones
Relay_NewestFirst(X, event, f) ==
    LET Y == Broadcast(X, event, f)
    IN IF Y.raised THEN Y ELSE [Y EXCEPT !.published = <<event>> \o @]

\* lines 367-368, 796-797: broadcast, then publish on 'browser-event'; a
\* broadcast that raises leaves the listener before the publication
Relay(X, event, f) ==
    LET Y == Broadcast(X, event, f)
    IN IF Y.raised THEN Y ELSE [Y EXCEPT !.published = Append(@, event)]

\* createEventHandler(method)(params) (lines 354-369)
createEventHandler(X, method, params, f) ==
    IF ~isCDPDomain(method[1])
    THEN [X EXCEPT !.thrown = TRUE]
    ELSE LET Y == Relay(X, BrowserEvent(method[1], method, params), f)
         IN [Y EXCEPT !.thrown = Y.raised, !.raised = Y.raised \/ X.raised]

\* the decoder that takes the interaction type as the marker wrote it
interactionMethod_AsWritten(message) == <<"DOM", "interaction", message[3]>>

\* line 790: `DOM.interaction.${eventType.toLowerCase()}`, the type being
\* the third part of the message (line 783)
interactionMethod(message) == <<"DOM", "interaction", toLowerCase(message[3])>>

\* the decoder that lets the fault of a payload it cannot parse escape
decoderCatch_Rethrow(X) == [X EXCEPT !.thrown = TRUE]

\* lines 801-804: the catch of the decoder
decoderCatch(X) == [X EXCEPT !.fault = TRUE]

\* the Runtime.consoleAPICalled listener of the injection (lines 769-806)
decoder(X, params, f) ==
    IF ~(params.type = "info" /\ Len(params.args) > 0) THEN X
    ELSE IF ~startsWithMarker(params.args[1]) THEN X
    ELSE IF ~(Len(params.args) > 1) THEN X
    ELSE IF ~parses(params.args[2]) THEN decoderCatch(X)
    ELSE LET Y == Relay(X, BrowserEvent("DOM", interactionMethod(params.args[1]),
                                        parse(params.args[2])), f)
         IN IF Y.raised
            THEN [Y EXCEPT !.fault = TRUE, !.raised = TRUE]
            ELSE [Y EXCEPT !.raised = X.raised]

\* the session's emit calls the listeners of the event in the order of
\* registration; one that throws ends the emit.  The fixed listeners are
\* registered by the listener setup (lines 372-379), the decoders by the
\* injections (line 769)
RECURSIVE RunListeners(_, _, _, _, _)
RunListeners(X, order, method, params, f) ==
    IF order = <<>> \/ X.thrown THEN X
    ELSE LET Y == IF Head(order) = "fixed"
                  THEN IF method \in FixedMethods
                       THEN createEventHandler(X, method, params, f) ELSE X
                  ELSE IF method = <<"Runtime", "consoleAPICalled">>
                       THEN decoder(X, params, f) ELSE X
         IN RunListeners(Y, Tail(order), method, params, f)

\* the listeners of session s for the event
Listeners(s, method, params, f) ==
    RunListeners(Dispatching, registered[s], method, params, f)

\* calls made and events fired so far
Ops == Cardinality({u \in Tasks : pc[u] # "idle"}) + now + emitted + loads

\* a session the provider handed out
Acquired(s) == \E c \in ConnectCalls : c[2] = s /\ HandlesComplete(result[c])

\* protocol session s emits an event (a detach that failed leaves the
\* session emitting); f is the transport whose send() raises, if any
SessionEmits(s, e, f) ==
    /\ Acquired(s)
    /\ f # null => (f \in Members(clients) /\ readyState[f] = "OPEN")
    /\ emitted' = emitted + 1
    /\ LET X == Listeners(s, e[1], e[2], f)
       IN /\ clients' = X.R.clients
          /\ clientRegistry' = X.R.registry
          /\ clientNotes' = X.R.notes
          /\ delivered' = X.delivered
          /\ published' = X.published
          /\ events' = X.events
          /\ thrown' = X.thrown
          /\ raised' = IF X.raised THEN f ELSE null
          /\ handled' = IF X.fault THEN <<<<"event", emitted'>>, "decoder">> ELSE NoFault
    /\ UNCHANGED <<closeHooks, readyState, now, nextId, loads>>
    /\ UNCHANGED <<engine, commands, document>>

\* page p fires 'load': each hook registered on it (lines 342-345) calls
\* injectDomInteractionTracker, which returns at once without a session or
\* a page (lines 382-389) and else sends Runtime.enable (line 395).  The
\* runs are the load tasks not yet used, in their order.
PageLoad(p) ==
    /\ Acquired(p)
    /\ loadHooks[p] > 0
    /\ LET idle == {l \in LoadCalls : pc[l] = "idle"}
           runs == {l \in idle : Cardinality({k \in idle : k[2] < l[2]}) < loadHooks[p]}
       IN /\ Cardinality(idle) >= loadHooks[p]
          /\ pc' = [t \in DOMAIN pc |->
                       IF t \in runs
                       THEN IF cdpSession = null \/ page = null
                            THEN "noop" ELSE "runtimeEnable"
                       ELSE pc[t]]
          /\ cmds' = [t \in DOMAIN cmds |->
                         IF t \in runs /\ cdpSession # null /\ page # null
                         THEN Append(cmds[t], "Runtime.enable")
                         ELSE cmds[t]]
    /\ loads' = loads + 1
    /\ NoError
    /\ UNCHANGED <<connected, connecting, handles, di, result, released,
                   listeners, notifications>>
    /\ UNCHANGED <<commands, registry, published, emitted, document>>

\* a run of the hook ends (line 345)
LoadFinish(l) ==
    /\ pc[l] = "injectReturned"
    /\ pc' = [pc EXCEPT ![l] = "resolved"]
    /\ NoError
    /\ UNCHANGED <<connected, connecting, handles, di, result, cmds, released,
                   listeners, notifications>>
    /\ UNCHANGED <<commands, registry, channel, document>>

\* ------------------------------------------------- the tracker in the page

\* element.matches(interactiveSelectors.join(',')) (lines 659-673): the
\* even elements are buttons, the odd ones are divs
interactive(e) == e % 2 = 0

\* node.querySelectorAll(interactiveSelectors.join(',')) (lines 718-720):
\* the matching descendants of a node; of four elements in a row the first
\* is a div that holds the second, a button, the third is a div and the
\* fourth a button, both without children
querySelectorAll(node) ==
    IF node % 4 = 1 /\ node + 1 \in Elements THEN {node + 1} ELSE {}

\* the nodes an insertion can add to the document: those that have no parent
Roots == {e \in Elements : e % 4 # 2}

\* trackElement (lines 626-653) of tracker k; T holds the Maps of the
\* trackers and the listeners attached
trackElement(T, k, element) ==
    IF element \in T.tracked[k] THEN T
    ELSE [tracked |-> [T.tracked EXCEPT ![k] = @ \cup {element}],
          attached |-> [T.attached EXCEPT ![element] =
                           [type \in interactionTypes |-> @[type] + 1]]]

\* trackElement for every element of a NodeList (lines 676-678, 723-725)
RECURSIVE trackEach(_, _, _)
trackEach(T, k, elements) ==
    IF elements = {} THEN T
    ELSE LET e == CHOOSE x \in elements : \A y \in elements : x <= y
         IN trackEach(trackElement(T, k, e), k, elements \ {e})

\* the MutationObserver callback of tracker k for an added element (lines
\* 688-730): the node itself is tracked, then its matching descendants
observed(T, k, node) ==
    trackEach(trackElement(T, k, node), k, querySelectorAll(node))

\* the callbacks of the observers of trackers 1..k
RECURSIVE observers(_, _, _)
observers(T, k, node) ==
    IF k = 0 THEN T ELSE observed(observers(T, k - 1, node), k, node)

Tracking == [tracked |-> trackedElements, attached |-> attached]

\* page.evaluate runs the tracker script (lines 400-764): a new tracker with
\* an empty Map (line 531), whose init registers the observer (lines
\* 733-736) and tracks the matching elements of the document (lines 655-680)
Inject ==
    /\ trackers < MaxInjections
    /\ trackers' = trackers + 1
    /\ LET T == trackEach(Tracking, trackers + 1,
                          {e \in inDocument : interactive(e)})
       IN /\ trackedElements' = T.tracked
          /\ attached' = T.attached
    /\ UNCHANGED inDocument
    /\ UNCHANGED <<engine, handled, commands, registry, channel>>

\* a script of the page inserts node, with its descendants, into the
\* document; the observer of every tracker sees the added node
InsertSubtree(node) ==
    /\ node \in Roots \ inDocument
    /\ inDocument' = inDocument \cup {node} \cup querySelectorAll(node)
    /\ LET T == observers(Tracking, trackers, node)
       IN /\ trackedElements' = T.tracked
          /\ attached' = T.attached
    /\ UNCHANGED trackers
    /\ UNCHANGED <<engine, handled, commands, registry, channel>>

\* ------------------------------------------------------------ specification
Next ==
    \/ \E c \in ConnectCalls : ConnectCall(c)
    \/ \E c \in ConnectCalls, r \in Responses : ProviderReturn(c, r)
    \/ \E c \in ConnectCalls, ok \in BOOLEAN : EnableReturn(c, ok)
    \/ \E c \in ConnectCalls : SetupReturn(c)
    \/ \E c \in ConnectCalls, ok \in BOOLEAN : RuntimeEnableReturn(c, ok)
    \/ \E c \in ConnectCalls, ok \in BOOLEAN : DomEnableReturn(c, ok)
    \/ \E c \in ConnectCalls, ok \in BOOLEAN : EvaluateReturn(c, ok)
    \/ \E c \in ConnectCalls : ConnectFinish(c)
    \/ \E d \in DisconnectCalls : DisconnectCall(d)
    \/ \E d \in DisconnectCalls, ok \in BOOLEAN : DetachReturn(d, ok)
    \/ \E d \in DisconnectCalls, ok \in BOOLEAN : PageCloseReturn(d, ok)
    \/ \E d \in DisconnectCalls, ok \in BOOLEAN : ContextCloseReturn(d, ok)
    \/ \E d \in DisconnectCalls, ok \in BOOLEAN : BrowserCloseReturn(d, ok)

Spec == Init /\ [][Next]_vars

\* connect() and disconnect() calls issued so far
Issued == Cardinality({u \in Tasks : pc[u] # "idle"})

\* the engine with callers that also send commands
NextCmd ==
    \/ \E c \in ConnectCalls : Issued < MaxCmdCalls /\ ConnectCall(c)
    \/ \E c \in ConnectCalls, r \in Responses : ProviderReturn(c, r)
    \/ \E c \in ConnectCalls, ok \in BOOLEAN : EnableReturn(c, ok)
    \/ \E c \in ConnectCalls : SetupReturn(c)
    \/ \E c \in ConnectCalls, ok \in BOOLEAN : RuntimeEnableReturn(c, ok)
    \/ \E c \in ConnectCalls, ok \in BOOLEAN : DomEnableReturn(c, ok)
    \/ \E c \in ConnectCalls, ok \in BOOLEAN : EvaluateReturn(c, ok)
    \/ \E c \in ConnectCalls : ConnectFinish(c)
    \/ \E d \in DisconnectCalls : Issued < MaxCmdCalls /\ DisconnectCall(d)
    \/ \E d \in DisconnectCalls, ok \in BOOLEAN : DetachReturn(d, ok)
    \/ \E d \in DisconnectCalls, ok \in BOOLEAN : PageCloseReturn(d, ok)
    \/ \E d \in DisconnectCalls, ok \in BOOLEAN : ContextCloseReturn(d, ok)
    \/ \E d \in DisconnectCalls, ok \in BOOLEAN : BrowserCloseReturn(d, ok)
    \/ \E s \in SendCalls, method \in Methods : SendCdpCommandToBrowser(s, method)
    \/ \E s \in SendCalls, ok \in BOOLEAN : CdpSendReturn(s, ok)

SpecCmd == Init /\ [][NextCmd]_vars

\* what connect() call c awaits returns: the provider's connect (line 153),
\* an enable command (line 334), the promise of setUpEventListeners (line
\* 170), a step of the injection (lines 395, 396, 400) or the injection
\* itself (line 177)
Returns(c) ==
    \/ \E r \in Responses : ProviderReturn(c, r)
    \/ \E ok \in BOOLEAN : EnableReturn(c, ok)
    \/ SetupReturn(c)
    \/ \E ok \in BOOLEAN : RuntimeEnableReturn(c, ok)
    \/ \E ok \in BOOLEAN : DomEnableReturn(c, ok)
    \/ \E ok \in BOOLEAN : EvaluateReturn(c, ok)
    \/ ConnectFinish(c)

\* the engine with its callers, who issue MaxCmdCalls calls at most
NextLive ==
    \/ \E c \in ConnectCalls : Issued < MaxCmdCalls /\ ConnectCall(c)
    \/ \E c \in ConnectCalls : Returns(c)
    \/ \E d \in DisconnectCalls : Issued < MaxCmdCalls /\ DisconnectCall(d)
    \/ \E d \in DisconnectCalls, ok \in BOOLEAN : DetachReturn(d, ok)
    \/ \E d \in DisconnectCalls, ok \in BOOLEAN : PageCloseReturn(d, ok)
    \/ \E d \in DisconnectCalls, ok \in BOOLEAN : ContextCloseReturn(d, ok)
    \/ \E d \in DisconnectCalls, ok \in BOOLEAN : BrowserCloseReturn(d, ok)

\* the same, when everything a connect() call awaits returns in the end
SpecLive ==
    /\ Init
    /\ [][NextLive]_vars
    /\ \A c \in ConnectCalls : WF_vars(Returns(c))

\* the subscriber registry with its callers and its transports
NextRegistry ==
    \/ \E w \in Transports : AddClient(w)
    \/ \E w \in Transports : Closing(w)
    \/ \E w \in Transports : CloseEvent(w)
    \/ \E f \in Transports \cup {null} : BroadcastToClients(f)

SpecRegistry == Init /\ [][NextRegistry]_vars

\* the engine of a caller that connects once and disconnects once, with its
\* session's events, its page's loads and subscribers; the provider answers
\* with every handle or with none
NextEvents ==
    \/ \E c \in ConnectCalls : c[2] = 1 /\ Ops < MaxOps /\ ConnectCall(c)
    \/ \E c \in ConnectCalls, r \in {Kinds, {}} : ProviderReturn(c, r)
    \/ \E c \in ConnectCalls, ok \in BOOLEAN : EnableReturn(c, ok)
    \/ \E c \in ConnectCalls : SetupReturn(c)
    \/ \E t \in ConnectCalls \cup LoadCalls, ok \in BOOLEAN : RuntimeEnableReturn(t, ok)
    \/ \E t \in ConnectCalls \cup LoadCalls, ok \in BOOLEAN : DomEnableReturn(t, ok)
    \/ \E t \in ConnectCalls \cup LoadCalls, ok \in BOOLEAN : EvaluateReturn(t, ok)
    \/ \E c \in ConnectCalls : ConnectFinish(c)
    \/ \E d \in DisconnectCalls : d[2] = 1 /\ Ops < MaxOps /\ DisconnectCall(d)
    \/ \E d \in DisconnectCalls, ok \in BOOLEAN : DetachReturn(d, ok)
    \/ \E d \in DisconnectCalls, ok \in BOOLEAN : PageCloseReturn(d, ok)
    \/ \E d \in DisconnectCalls, ok \in BOOLEAN : ContextCloseReturn(d, ok)
    \/ \E d \in DisconnectCalls, ok \in BOOLEAN : BrowserCloseReturn(d, ok)
    \/ \E p \in Sessions : Ops < MaxOps /\ PageLoad(p)
    \/ \E l \in LoadCalls : LoadFinish(l)
    \/ \E w \in Transports : Ops < MaxOps /\ AddClient(w)
    \/ \E w \in Transports : closeHooks[w] > 0 /\ Closing(w)
    \/ \E w \in Transports : closeHooks[w] > 0 /\ CloseEvent(w)
    \/ \E s \in Sessions, e \in SessionEvents, f \in Transports \cup {null} :
          Ops < MaxOps /\ SessionEmits(s, e, f)

SpecEvents == Init /\ [][NextEvents]_vars

\* the engine with its pages' loads
NextLoads ==
    \/ \E c \in ConnectCalls : Issued < MaxCalls /\ ConnectCall(c)
    \/ \E c \in ConnectCalls, r \in {Kinds, {}} : ProviderReturn(c, r)
    \/ \E c \in ConnectCalls, ok \in BOOLEAN : EnableReturn(c, ok)
    \/ \E c \in ConnectCalls : SetupReturn(c)
    \/ \E t \in ConnectCalls \cup LoadCalls, ok \in BOOLEAN : RuntimeEnableReturn(t, ok)
    \/ \E t \in ConnectCalls \cup LoadCalls, ok \in BOOLEAN : DomEnableReturn(t, ok)
    \/ \E t \in ConnectCalls \cup LoadCalls, ok \in BOOLEAN : EvaluateReturn(t, ok)
    \/ \E c \in ConnectCalls : ConnectFinish(c)
    \/ \E d \in DisconnectCalls : Issued < MaxCalls /\ DisconnectCall(d)
    \/ \E d \in DisconnectCalls, ok \in BOOLEAN : DetachReturn(d, ok)
    \/ \E d \in DisconnectCalls, ok \in BOOLEAN : PageCloseReturn(d, ok)
    \/ \E d \in DisconnectCalls, ok \in BOOLEAN : ContextCloseReturn(d, ok)
    \/ \E d \in DisconnectCalls, ok \in BOOLEAN : BrowserCloseReturn(d, ok)
    \/ \E p \in Sessions : loads < MaxPageLoads /\ PageLoad(p)
    \/ \E l \in LoadCalls : LoadFinish(l)

SpecLoads == Init /\ [][NextLoads]_vars

\* the engine with one subscriber and the marker messages of its sessions
NextOrder ==
    \/ \E c \in ConnectCalls : Issued < MaxCalls /\ ConnectCall(c)
    \/ \E c \in ConnectCalls, r \in {Kinds, {}} : ProviderReturn(c, r)
    \/ \E c \in ConnectCalls, ok \in BOOLEAN : EnableReturn(c, ok)
    \/ \E c \in ConnectCalls : SetupReturn(c)
    \/ \E c \in ConnectCalls, ok \in BOOLEAN : RuntimeEnableReturn(c, ok)
    \/ \E c \in ConnectCalls, ok \in BOOLEAN : DomEnableReturn(c, ok)
    \/ \E c \in ConnectCalls, ok \in BOOLEAN : EvaluateReturn(c, ok)
    \/ \E c \in ConnectCalls : ConnectFinish(c)
    \/ \E d \in DisconnectCalls : Issued < MaxCalls /\ DisconnectCall(d)
    \/ \E d \in DisconnectCalls, ok \in BOOLEAN : DetachReturn(d, ok)
    \/ \E d \in DisconnectCalls, ok \in BOOLEAN : PageCloseReturn(d, ok)
    \/ \E d \in DisconnectCalls, ok \in BOOLEAN : ContextCloseReturn(d, ok)
    \/ \E d \in DisconnectCalls, ok \in BOOLEAN : BrowserCloseReturn(d, ok)
    \/ \E w \in Transports : now < MaxEvents /\ AddClient(w)
    \/ \E s \in Sessions, params \in {WellFormed, Malformed} :
          /\ emitted < MaxEvents
          /\ SessionEmits(s, <<<<"Runtime", "consoleAPICalled">>, params>>, null)

SpecOrder == Init /\ [][NextOrder]_vars

\* one document with the injections that run in it
NextPage ==
    \/ Inject
    \/ \E node \in Elements : InsertSubtree(node)

SpecPage == Init /\ [][NextPage]_vars

\* the types of the registry
RegistryTypeOK ==
    /\ Members(clients) \subseteq Transports
    /\ \A id \in Ids :
          /\ clientRegistry[id].client \in Transports \cup {null}
          /\ clientRegistry[id].createdAt \in 0..MaxAdds
          /\ clientRegistry[id].lastActive \in 0..MaxAdds
    /\ \A w \in Transports :
          /\ closeHooks[w] \in 0..MaxAdds
          /\ readyState[w] \in {"OPEN", "CLOSING", "CLOSED"}
          /\ Len(delivered[w]) <= MaxEvents
    /\ raised \in Transports \cup {null}
    /\ thrown \in BOOLEAN
    /\ now \in 0..MaxAdds /\ nextId \in 0..MaxAdds /\ events \in 0..MaxEvents

TypeOK ==
    /\ connected \in BOOLEAN
    /\ connecting \in BOOLEAN
    /\ {browser, context, page, cdpSession} \subseteq (Sessions \cup {null})
    /\ \A c \in ConnectCalls :
          /\ pc[c] \in {"idle", "noop", "acquire", "enable", "setupResolved",
                        "setupRejected", "runtimeEnable", "domEnable",
                        "evaluate", "injectReturned", "resolved", "rejected"}
          /\ di[c] \in 0..(Len(enableDomains) + 1)
          /\ result[c] \in {NoResult} \cup Responses
    /\ \A d \in DisconnectCalls :
          pc[d] \in {"idle", "noop", "cdpSession", "page", "context",
                     "browser", "resolved"}
    /\ handled = NoFault
          \/ handled \in (Tasks \cup SendCalls \cup LoadCalls
                           \cup ({"event"} \X (1..MaxOps))) \X STRING
    /\ \A l \in LoadCalls :
          pc[l] \in {"idle", "noop", "runtimeEnable", "domEnable", "evaluate",
                     "injectReturned", "resolved"}
    /\ emitted \in 0..MaxOps /\ loads \in 0..MaxOps
    /\ \A s \in Sessions :
          /\ Cardinality({i \in 1..Len(registered[s]) : registered[s][i] = "fixed"})
                 = nativeListeners[s]
          /\ Cardinality({i \in 1..Len(registered[s]) : registered[s][i] = "decoder"})
                 = decoders[s]
    /\ inDocument \subseteq Elements
    /\ trackers \in 0..MaxInjections
    /\ \A k \in Trackers : trackedElements[k] \subseteq inDocument
    /\ \A e \in Elements : \A type \in interactionTypes :
           attached[e][type] \in 0..MaxInjections
    /\ \A s \in SendCalls :
          /\ sendPc[s] \in {"idle", "send", "done"}
          /\ sendTo[s] \in Sessions \cup {null}
          /\ sendOutcome[s] \in {Pending, <<"rejected", "ServerError">>,
                                 <<"resolved", "result">>,
                                 <<"resolved", "undefined">>}

\* ------------------------------------------------------------------ claims

Disconnected == "Disconnected"
Connecting == "Connecting"
Connected == "Connected"

\* the last notification of the step, when the step emitted one
EmittedNow(kind) ==
    /\ Len(notifications') = Len(notifications) + 1
    /\ notifications'[Len(notifications')][1] = kind

\* connect() call c was accepted and is past the provider's complete answer
Installing ==
    {"enable", "setupResolved", "setupRejected", "runtimeEnable", "domEnable",
     "evaluate", "injectReturned"}

\* the provider answered call c and a required handle was missing
AcquisitionFailed(c) == result[c] # NoResult /\ ~HandlesComplete(result[c])

\* number of 'connect' notifications emitted by call c
ConnectNotes(c) ==
    Cardinality({i \in 1..Len(notifications) : notifications[i] = Note("connect", c)})

\* C1: the observed connection state changes only along
\* Disconnected->Connecting, Connecting->Connected, Connecting->Disconnected
\* and Connected->Disconnected, whatever the interleaving of connect() and
\* disconnect().
C1_OnlyLegalTransitions ==
    [][State' # State =>
         <<State, State'>> \in {<<Disconnected, Connecting>>,
                                <<Connecting, Connected>>,
                                <<Connecting, Disconnected>>,
                                <<Connected, Disconnected>>}]_vars

\* C2: no two 'connect' notifications are emitted without a 'disconnect'
\* notification between them.
C2_NoTwoConnectsInARow ==
    \A i \in 1..(Len(notifications) - 1) :
        ~(notifications[i][1] = "connect" /\ notifications[i + 1][1] = "connect")

\* C3: whenever isConnected() is true, the browser, context, page and
\* protocol-session handles are all present and none of them has been
\* released by a disconnect().
C3_ConnectedHandlesIntact ==
    isConnected =>
        /\ browser # null /\ released[<<"browser", browser>>] = 0
        /\ context # null /\ released[<<"context", context>>] = 0
        /\ page # null /\ released[<<"page", page>>] = 0
        /\ cdpSession # null /\ released[<<"cdpSession", cdpSession>>] = 0

\* the session of call c is being acquired, or some handle it returned has
\* not been released
Unreleased(c) ==
    \/ pc[c] = "acquire"
    \/ /\ result[c] # NoResult
       /\ \E k \in result[c] : released[<<k, c[2]>>] = 0

\* C4: at any time at most one session acquired from the SessionProvider is
\* in flight or unreleased.
C4_AtMostOneSession ==
    Cardinality({c \in ConnectCalls : Unreleased(c)}) <= 1

\* C5: when a 'connect' notification is emitted, isConnected() is true and
\* the state was Connecting immediately before it became Connected.
C5_ConnectNoteAfterConnecting ==
    [][EmittedNow("connect") => (connected' /\ State = Connecting)]_vars

\* C6: connect() called while the engine is Connecting or Connected is a
\* no-op: the SessionProvider is not invoked, the state, the handles and the
\* listeners stay as they are, nothing is sent and nothing is emitted.
C6_ConnectNoOp ==
    [][\A c \in ConnectCalls :
          (pc[c] = "idle" /\ pc'[c] # "idle" /\ State # Disconnected) =>
              /\ pc'[c] = "noop"
              /\ UNCHANGED <<connected, connecting, handles, listeners, result,
                             cmds, released, notifications>>]_vars

\* C6 witness: a connect() call returned as a no-op while another call's
\* acquisition, the only one, is in flight
C6_Witness ==
    /\ \E c \in ConnectCalls : pc[c] = "noop"
    /\ Cardinality({c \in ConnectCalls : pc[c] = "acquire"}) = 1
    /\ State = Connecting

\* C7: disconnect() called while the engine is Disconnected is a no-op: it
\* releases no handle, leaves state and handles unchanged and emits nothing.
C7_DisconnectNoOp ==
    [][\A d \in DisconnectCalls :
          (pc[d] = "idle" /\ pc'[d] # "idle" /\ State = Disconnected) =>
              /\ pc'[d] = "noop"
              /\ UNCHANGED <<connected, connecting, handles, listeners, result,
                             cmds, released, notifications>>]_vars

\* C7 witness: a disconnect() call returned as a no-op; the engine is
\* Disconnected and nothing was released or emitted
C7_Witness ==
    /\ \E d \in DisconnectCalls : pc[d] = "noop"
    /\ State = Disconnected
    /\ notifications = <<>>
    /\ \A h \in Kinds \X Sessions : released[h] = 0

\* C8: when the provider's answer lacks one of the four handles, connect()
\* aborts and the engine reverts to Disconnected: no returned handle is
\* stored, no listener is registered, no injection is attempted and no
\* 'connect' notification is emitted.
C8_MissingHandleAborts ==
    [][\A c \in ConnectCalls :
          (pc[c] = "acquire" /\ pc'[c] # "acquire" /\ result'[c] # Kinds) =>
              /\ State' = Disconnected
              /\ UNCHANGED <<handles, listeners, cmds, notifications>>]_vars

\* C9: a connect() whose session acquisition failed ends with an error
\* outcome for its caller, not with a normal completion.
C9_FailureSurfaces ==
    \A c \in ConnectCalls : AcquisitionFailed(c) => pc[c] = "rejected"

\* C10: once the provider has returned all four handles, the call ends only
\* by moving the engine to Connected and emitting its 'connect'
\* notification, exactly once, whether or not the listener setup or the
\* injection faulted.
C10_InstallFaultsNotFatal ==
    /\ [][\A c \in ConnectCalls :
             (pc[c] \in Installing /\ pc'[c] \notin Installing) =>
                 /\ pc'[c] = "resolved"
                 /\ State' = Connected
                 /\ notifications' = Append(notifications, Note("connect", c))]_vars
    /\ [](\A c \in ConnectCalls :
             ConnectNotes(c) =
                 IF HandlesComplete(result[c]) /\ pc[c] = "resolved" THEN 1 ELSE 0)

\* C10 witness: a call whose injection was begun and never registered a
\* decoder (it faulted) has ended, the engine is Connected and the call's
\* 'connect' notification is out
C10_Witness ==
    \E c \in ConnectCalls :
        /\ pc[c] = "resolved"
        /\ HandlesComplete(result[c])
        /\ \E i \in 1..Len(cmds[c]) : cmds[c][i] = "Runtime.enable"
        /\ \A s \in Sessions : decoders[s] = 0
        /\ State = Connected
        /\ ConnectNotes(c) = 1

\* the release a disconnect() suspended at stage k attempts next
NextRelease(k) ==
    CASE k = "idle" -> "cdpSession"
      [] k = "cdpSession" -> "page"
      [] k = "page" -> "context"
      [] k = "context" -> "browser"
      [] OTHER -> "resolved"

\* C11: a disconnect() on a Connected engine attempts the four releases in
\* the order protocol session, page, context, browser, each of them whether
\* or not an earlier one failed, and ends with the engine Disconnected and
\* the four handles cleared.
C11_ReleasesAllFour ==
    [][\A d \in DisconnectCalls :
          (State = Connected /\ pc'[d] # pc[d]) =>
              /\ pc'[d] = NextRelease(pc[d])
              /\ pc'[d] = "resolved" =>
                     /\ State' = Disconnected
                     /\ browser' = null /\ context' = null
                     /\ page' = null /\ cdpSession' = null]_vars

\* C12: sendCdpCommandToBrowser called with no protocol-session handle, or
\* while the engine is not Connected (Disconnected or still Connecting),
\* fails with a ServerError and hands nothing to a session.
C12_SendRefusedUnlessReady ==
    [][\A s \in SendCalls :
          (sendPc[s] = "idle" /\ sendPc'[s] # "idle"
             /\ (cdpSession = null \/ State # Connected)) =>
              /\ sendPc'[s] = "done"
              /\ sendOutcome'[s] = <<"rejected", "ServerError">>
              /\ sendTo'[s] = null
              /\ UNCHANGED engine]_vars

\* C12 witness: a command was refused while the engine was still Connecting
\* with its session handle already stored
C12_Witness ==
    \E s \in SendCalls :
        /\ sendOutcome[s] = <<"rejected", "ServerError">>
        /\ sendTo[s] = null
        /\ State = Connecting
        /\ cdpSession # null

\* C13: a command whose domain prefix is outside Page, Network, DOM, Runtime
\* and Console is not handed to the session and fails for its caller.
C13_ForeignDomainRefused ==
    \A s \in SendCalls :
        (sendPc[s] # "idle" /\ ~isCDPDomain(sendMethod[s][1])) =>
            /\ sendTo[s] = null
            /\ sendPc[s] = "done"
            /\ sendOutcome[s][1] = "rejected"

\* C14: when the session rejects a forwarded command, the outcome the
\* caller receives is the normalised fault object.
C14_RejectionReturnsFault ==
    [][\A s \in SendCalls :
          (sendPc[s] = "send" /\ sendPc'[s] = "done" /\ handled' = <<s, "send">>) =>
              sendOutcome'[s][2] = "ProxyError"]_vars

\* the enable commands of the configured domains, in list order (line 334)
ConfiguredEnables == [i \in 1..Len(enableDomains) |-> enableDomains[i] \o ".enable"]

\* what injectDomInteractionTracker issues, in order (lines 395, 396, 400)
InjectCommands == <<"Runtime.enable", "DOM.enable", "page.evaluate">>

\* the '<domain>.enable' commands among those connect() call c issued
EnablesOf(c) == {cmds[c][i] : i \in 1..Len(cmds[c])} \ {"page.evaluate"}

IsPrefix(a, b) == Len(a) <= Len(b) /\ a = SubSeq(b, 1, Len(a))

\* C15 as stated: the enable commands issued during the setup of one
\* connect() are exactly those of the configured domains, and no other.
C15_ExactlyConfigured ==
    \A c \in ConnectCalls :
        /\ EnablesOf(c) \subseteq {ConfiguredEnables[i] : i \in 1..Len(enableDomains)}
        /\ (pc[c] = "resolved" /\ HandlesComplete(result[c])) =>
               EnablesOf(c) = {ConfiguredEnables[i] : i \in 1..Len(enableDomains)}

\* C15, amended: during the setup of one connect(), setUpEventListeners
\* sends the enable commands of the configured domains only, in list order
\* and none twice, all of them by the time it resolves; what follows them is
\* the injection's own Runtime.enable and DOM.enable (and its page.evaluate),
\* sent whatever the configured list.
C15_SetupEnablesConfigured ==
    \A c \in ConnectCalls :
        /\ \E n \in 0..Len(cmds[c]) :
              /\ IsPrefix(SubSeq(cmds[c], 1, n), ConfiguredEnables)
              /\ IsPrefix(SubSeq(cmds[c], n + 1, Len(cmds[c])), InjectCommands)
        /\ pc[c] = "setupResolved" => cmds[c] = ConfiguredEnables

\* C15 witness: a connect() call has ended after sending the configured
\* enable commands and then the injection's Runtime.enable and DOM.enable
C15_Witness ==
    \E c \in ConnectCalls :
        /\ pc[c] = "resolved"
        /\ IsPrefix(ConfiguredEnables, cmds[c])
        /\ "Runtime.enable" \in EnablesOf(c)
        /\ "DOM.enable" \in EnablesOf(c)

\* transport w has an entry in the id map
Registered(w) == ExistingIds(clientRegistry, w) # {}

\* the id of a registered transport
IdOf(w) == FirstId(ExistingIds(clientRegistry, w))

\* the step is an addClient(w): the clock moved and w's entry carries the
\* new time as lastActive
AddedNow(w) ==
    /\ now' = now + 1
    /\ \E id \in Ids : /\ clientRegistry'[id].client = w
                       /\ clientRegistry'[id].lastActive = now'

\* number of notifications <<kind, id>> in a sequence of notifications
Count(notes, kind, id) ==
    Cardinality({i \in 1..Len(notes) : notes[i] = <<kind, id>>})

\* C16: addClient is idempotent per transport: called again with a
\* transport that is registered, it leaves the transport with the one id it
\* had and the subscriber count as it was; called with a transport that is
\* not registered, it gives it one id and the count grows by one.  A
\* transport never has two ids and is never twice in the active set.
C16_AddIdempotent ==
    /\ [][\A w \in Transports :
             AddedNow(w) =>
                 /\ Cardinality(ExistingIds(clientRegistry', w)) = 1
                 /\ w \in Members(clients')
                 /\ IF Registered(w)
                    THEN /\ ExistingIds(clientRegistry', w) = ExistingIds(clientRegistry, w)
                         /\ clients' = clients
                         /\ nextId' = nextId
                    ELSE Len(clients') = Len(clients) + 1]_vars
    /\ [](/\ \A w \in Transports : Cardinality(ExistingIds(clientRegistry, w)) <= 1
          /\ \A i, j \in 1..Len(clients) : clients[i] = clients[j] => i = j
          /\ getClientCount = Cardinality({w \in Transports : Registered(w)}))

\* C16 witness: one transport was given to addClient three times with no
\* removal; it has one id and the subscriber count is one
C16_Witness ==
    \E w \in Transports :
        /\ closeHooks[w] = 3
        /\ \A i \in 1..Len(clientNotes) : clientNotes[i][1] = "client-connected"
        /\ ExistingIds(clientRegistry, w) = {1}
        /\ getClientCount = 1

\* C17: addClient called with a registered transport only refreshes
\* lastActive: it adds no close hook and emits no notification.
C17_ReAddInstallsNothing ==
    [][\A w \in Transports :
          (AddedNow(w) /\ Registered(w)) =>
              /\ closeHooks' = closeHooks
              /\ clientNotes' = clientNotes]_vars

\* C18: a transport that leaves the id map leaves the active set in the
\* same step, with exactly one 'client-disconnected' notification carrying
\* its id, and no other such notification is emitted; the 'close' event of a
\* registered transport with a close hook removes it, and the 'close' event
\* of a transport that is not registered changes nothing and emits nothing.
C18_RemoveOnceOrNothing ==
    [][/\ \A w \in Transports :
             (Registered(w) /\ ~Registered(w)') =>
                 /\ w \notin Members(clients')
                 /\ Count(clientNotes', "client-disconnected", IdOf(w)) =
                        Count(clientNotes, "client-disconnected", IdOf(w)) + 1
       /\ Cardinality({i \in 1..Len(clientNotes') :
                          clientNotes'[i][1] = "client-disconnected"})
            = Cardinality({i \in 1..Len(clientNotes) :
                              clientNotes[i][1] = "client-disconnected"})
              + Cardinality({w \in Transports : Registered(w) /\ ~Registered(w)'})
       /\ \A w \in Transports :
             (readyState[w] # "CLOSED" /\ readyState'[w] = "CLOSED" /\ closeHooks[w] > 0) =>
                 /\ ~Registered(w)'
                 /\ w \notin Members(clients')
                 /\ ~Registered(w) =>
                        UNCHANGED <<clients, clientRegistry, clientNotes>>]_vars

\* C18 witness: a transport with a close hook was pruned by a broadcast
\* while closing, and its 'close' event came afterwards: it has one
\* 'client-disconnected' notification
C18_Witness ==
    \E w \in Transports :
        /\ readyState[w] = "CLOSED"
        /\ closeHooks[w] > 0
        /\ events > 0
        /\ delivered[w] = <<>>
        /\ ~Registered(w)
        /\ Count(clientNotes, "client-disconnected", 1) = 1
        /\ Count(clientNotes, "client-connected", 1) = 1
        /\ Len(clientNotes) = 2

\* C19: broadcastToClients delivers exactly one frame, the serialized event,
\* to every subscriber whose transport is open, nothing to any other
\* transport, and removes every subscriber whose transport is not open.
C19_BroadcastReachesAllOpen ==
    [][events' = events + 1 =>
          \A w \in Transports :
              /\ (w \in Members(clients) /\ readyState[w] = "OPEN") =>
                     delivered'[w] = Append(delivered[w], Message(events'))
              /\ (w \notin Members(clients) \/ readyState[w] # "OPEN") =>
                     delivered'[w] = delivered[w]
              /\ (w \in Members(clients) /\ readyState[w] # "OPEN") =>
                     (~Registered(w)' /\ w \notin Members(clients'))]_vars

\* C20: when the send of one open subscriber raises during a broadcast,
\* every other open subscriber still gets the frame and the broadcast
\* returns normally.
C20_SendFaultContained ==
    [][(events' = events + 1 /\ raised' # null) =>
          /\ ~thrown'
          /\ \A w \in Members(clients) \ {raised'} :
                 readyState[w] = "OPEN" =>
                     delivered'[w] = Append(delivered[w], Message(events'))]_vars

\* C24: the SessionProvider is invoked only by a connect() call that was
\* accepted while the engine was Disconnected, and once the engine is
\* Disconnected it stays so until such a call: nothing else takes it out of
\* Disconnected.
C24_NoSelfReconnect ==
    [][/\ \A c \in ConnectCalls :
             (pc[c] # "acquire" /\ pc'[c] = "acquire") =>
                 (pc[c] = "idle" /\ State = Disconnected)
       /\ (State = Disconnected /\ State' # Disconnected) =>
             \E c \in ConnectCalls : pc[c] = "idle" /\ pc'[c] = "acquire"]_vars

\* C27: when the enable command of a configured domain fails during the
\* listener setup, the setup goes on: the enable command of the next domain
\* in the list is issued, and after the last domain the page 'load' hook and
\* the eight fixed listeners are registered.
C27_EnableFaultSkipped ==
    [][\A c \in ConnectCalls :
          (pc[c] = "enable" /\ di'[c] # di[c] /\ handled' = <<c, "enable">>) =>
                 (
                  IF di[c] < Len(enableDomains)
                  THEN /\ pc'[c] = "enable"
                       /\ cmds'[c] = Append(cmds[c], ConfiguredEnables[di[c] + 1])
                  ELSE /\ pc'[c] = "setupResolved"
                       /\ \E p \in Sessions : loadHooks'[p] = loadHooks[p] + 1
                       /\ \E x \in Sessions :
                             nativeListeners'[x] = nativeListeners[x] + 1)]_vars

\* the entries b has after those of a
Suffix(a, b) == SubSeq(b, Len(a) + 1, Len(b))

ConsoleAPICalled(params) == <<<<"Runtime", "consoleAPICalled">>, params>>

\* the DOM.interaction events among the entries b has after those of a
Interactions(a, b) ==
    {i \in 1..Len(Suffix(a, b)) :
        /\ Suffix(a, b)[i].domain = "DOM"
        /\ Suffix(a, b)[i].method[2] = "interaction"}

Frames(w) == [i \in 1..Len(delivered[w]) |-> delivered[w][i].event]

\* C22: a marker message whose payload cannot be parsed yields no
\* DOM.interaction event, broadcast or published, its fault is caught and
\* the decoders stay registered; a well-formed marker message is decoded
\* and published by a session that has a decoder, whatever came before.
C22_MalformedDropped ==
    [][emitted' # emitted => \A s \in Sessions, f \in Transports \cup {null} :
          /\ SessionEmits(s, ConsoleAPICalled(Malformed), f) =>
                /\ Interactions(published, published') = {}
                /\ \A w \in Transports : Interactions(Frames(w), Frames(w)') = {}
                /\ decoders' = decoders
                /\ f = null => ~thrown'
          /\ (SessionEmits(s, ConsoleAPICalled(WellFormed), null) /\ decoders[s] > 0) =>
                /\ Interactions(published, published') # {}
                /\ \A w \in Members(clients) :
                       readyState[w] = "OPEN" => Interactions(Frames(w), Frames(w)') # {}]_vars

\* a decoder met a payload it could not parse, and a later well-formed
\* message of the session was decoded
C22_Witness ==
    \E i, j \in 1..Len(published) :
        /\ i < j
        /\ published[i].params = Malformed
        /\ published[i].timestamp < published[j].timestamp
        /\ published[j].method = <<"DOM", "interaction", <<"a", "b">>>>

\* the DOM.interaction event of the reported interaction "ab"
IsInteractionAB(ev) ==
    /\ ev.type = "browser"
    /\ ev.domain = "DOM"
    /\ ev.method = <<"DOM", "interaction", <<"a", "b">>>>
    /\ ev.params = [type |-> <<"a", "b">>, element |-> "details"]

C25_OneInteractionPerMessage ==
    [][\A s \in Sessions :
          (SessionEmits(s, ConsoleAPICalled(WellFormed), null) /\ decoders[s] > 0) =>
              /\ Cardinality(Interactions(published, published')) = 1
              /\ \A w \in Members(clients) :
                     readyState[w] = "OPEN" =>
                         Cardinality(Interactions(Frames(w), Frames(w)')) = 1]_vars

\* C26: every event handed to broadcastToClients is published once on
\* 'browser-event' and every published event was handed to it, also when
\* the send of a subscriber raises: a step publishes as many events as it
\* hands to the broadcaster.
C26_DualDelivery ==
    [][events' - events = Len(published') - Len(published)]_vars

\* the runs of the injection a step starts from the page 'load' hook
Started == {l \in LoadCalls : pc[l] = "idle" /\ pc'[l] # "idle"}

\* C28: once the listener setup registered the page 'load' hook, every load
\* of the page starts one re-run of the injection; when disconnect() has
\* cleared the handles the run returns at once, having sent nothing and
\* raised no fault, and else it sends the first command of the injection.
C28_OneRerunPerLoad ==
    [][loads' = loads + 1 =>
          /\ Cardinality(Started) = 1
          /\ handled' = NoFault
          /\ \A l \in Started :
                 IF cdpSession = null \/ page = null
                 THEN pc'[l] = "noop" /\ cmds'[l] = cmds[l]
                 ELSE pc'[l] = "runtimeEnable"
                         /\ cmds'[l] = Append(cmds[l], "Runtime.enable")]_vars

\* the events published or delivered to a subscriber so far
Relayed ==
    {published[i] : i \in 1..Len(published)}
        \cup UNION {{delivered[w][i].event : i \in 1..Len(delivered[w])} : w \in Transports}

\* C29: every event broadcast or published has a domain among Page,
\* Network, DOM, Runtime and Console, and a method that starts with that
\* domain and goes on with a name; no event of another domain reaches a
\* subscriber or the event channel.
C29_DomainsFixed ==
    \A ev \in Relayed :
        /\ ev.domain \in {"Page", "Network", "DOM", "Runtime", "Console"}
        /\ Len(ev.method) >= 2
        /\ ev.method[1] = ev.domain

\* a subscriber got events of two domains, which were published as well
C29_Witness ==
    /\ \E w \in Transports : \E i, j \in 1..Len(delivered[w]) :
           delivered[w][i].event.domain # delivered[w][j].event.domain
    /\ published # <<>>

\* C30: in one script context the listeners of the interaction types are
\* attached only to elements that match the interactive selectors, and at
\* most once per element and type, whatever the sequence of initial scans,
\* insertions of subtrees and re-runs of the injection.
C30_BoundOnceIfInteractive ==
    \A e \in Elements : \A type \in interactionTypes :
        /\ attached[e][type] <= 1
        /\ attached[e][type] > 0 => interactive(e)

\* C31: a disconnect() issued on a Connected engine while another
\* disconnect() is suspended on the release of a handle adds nothing to the
\* first: it releases no handle and returns at once, so that each handle is
\* released once and one 'disconnect' notification is emitted.
C31_OverlappingDisconnects ==
    [][\A d \in DisconnectCalls :
          (/\ connected
           /\ pc[d] = "idle" /\ pc'[d] # "idle"
           /\ \E u \in DisconnectCalls \ {d} : pc[u] \in Kinds) =>
              /\ released' = released
              /\ pc'[d] = "noop"]_vars

\* the ids the registry holds
RegistryIds == {id \in Ids : clientRegistry[id] # Absent}

\* C32: the Set of subscribers and the id registry describe the same
\* transports: every member has exactly one entry, every entry is that of a
\* member, no transport is a member twice or has two ids, getClientCount()
\* is the number of entries, and getClientById(id) finds an entry exactly
\* when the id is that of a member.
C32_SetMatchesRegistry ==
    /\ \A w \in Members(clients) : Cardinality(ExistingIds(clientRegistry, w)) = 1
    /\ \A id \in RegistryIds : clientRegistry[id].client \in Members(clients)
    /\ \A i, j \in 1..Len(clients) : clients[i] = clients[j] => i = j
    /\ \A id, other \in RegistryIds :
           clientRegistry[id].client = clientRegistry[other].client => id = other
    /\ getClientCount = Cardinality(RegistryIds)
    /\ \A id \in Ids :
           getClientById(id) # Absent <=>
               \E w \in Members(clients) : IdOf(w) = id /\ Registered(w)

\* after additions, a removal and a broadcast the registry holds a
\* subscriber that was added again
C32_Witness ==
    /\ events > 0
    /\ \E i \in 1..Len(clientNotes) : clientNotes[i][1] = "client-disconnected"
    /\ \E w \in Members(clients) : closeHooks[w] > 1

\* C33: when the provider's connect and every step of the installation
\* return in the end, every connect() call that was accepted completes, and
\* the engine is then Connected or Disconnected, not Connecting.
C33_LeavesConnecting ==
    \A c \in ConnectCalls :
        (pc[c] = "acquire") ~> (pc[c] = "resolved" /\ State # "Connecting")

\* an accepted connect() has completed after the whole installation, and
\* another one after an answer of the provider that lacks a handle
C33_Witness ==
    \E c, a \in ConnectCalls :
        /\ pc[c] = "resolved" /\ HandlesComplete(result[c]) /\ State = "Connected"
        /\ pc[a] = "resolved" /\ result[a] \in Responses /\ ~HandlesComplete(result[a])

\* the entries among those b has after those of a that are the fixed
\* listener's Runtime.consoleAPICalled event
Natives(a, b) ==
    {i \in 1..Len(Suffix(a, b)) :
        Suffix(a, b)[i].method = <<"Runtime", "consoleAPICalled">>}

\* C34: for a marker message of a session that has both a fixed listener
\* and a decoder, the Runtime.consoleAPICalled event is broadcast and
\* published before the DOM.interaction event made from it, and the step
\* that handles the message hands out the events of that message only.
C34_NativeBeforeInteraction ==
    [][emitted' # emitted =>
          \A s \in Sessions :
              (/\ SessionEmits(s, ConsoleAPICalled(WellFormed), null)
               /\ nativeListeners[s] > 0
               /\ decoders[s] > 0) =>
                  /\ \A i \in Interactions(published, published') :
                         \E j \in Natives(published, published') : j < i
                  /\ \A w \in Transports :
                         /\ \A i \in Interactions(Frames(w), Frames(w)') :
                                \E j \in Natives(Frames(w), Frames(w)') : j < i
                         /\ \A i \in 1..Len(Suffix(Frames(w), Frames(w)')) :
                                Suffix(Frames(w), Frames(w)')[i].timestamp = emitted'
                  /\ \A i \in 1..Len(Suffix(published, published')) :
                         Suffix(published, published')[i].timestamp = emitted']_vars

====
